---- MODULE Spec2Model ----
(***************************************************************************)
(* Full Court Fortune: the exact-EV 5000-row table builder                 *)
(* (build_math_package.py) and the seeded outcome generator                *)
(* (basketball_slot_game.py, game_logic.py).                               *)
(*                                                                         *)
(* Representation of numbers:                                              *)
(*  - target_rtp * 1_000_000 is held in half units (rtp2 = 2 * that        *)
(*    product), so that the halfway cases of Python's round() exist;       *)
(*  - a drawn value r in [0,1) is held as floor(r * 1000) and a rate as    *)
(*    rate * 1000, which decides r < rate exactly for every rate that is   *)
(*    a multiple of 1/1000;                                                *)
(*  - money is held in cents.                                              *)
(***************************************************************************)
EXTENDS Integers, Sequences, FiniteSets, TLC

VARIABLES
    target_rtp2,    \* build_5000_outcomes: 2 * target_rtp * 1_000_000
    build_pc,       \* "call" before build_5000_outcomes runs, "exit" after
    build_status,   \* how build_5000_outcomes left: returned / ValueError / AssertionError
    build_message,  \* the message of the exception raised, "" when it returned
    outcomes,       \* the list `outcomes` when build_5000_outcomes left
    impl,           \* which BasketballSlotGame runs: "slot" (basketball_slot_game.py) or "logic" (game_logic.py)
    config,         \* the GameConfig of the game object
    digest_key,     \* which digest function of the family stands for SHA-256
    game,           \* the attributes of the BasketballSlotGame object
    last,           \* the last call on the game object: its inputs, the draw, what it returned
    probe,          \* a (server_seed, client_seed, counter) triple that is watched
    probe_first,    \* the first draw that consumed the watched triple: its value and the free spins then
    probe_count,    \* how many draws consumed the watched triple (2 stands for "twice or more")
    probe_differs,  \* a later draw of the watched triple returned another value than the first
    sim_outcomes,   \* simulate_spins: the list `outcomes` it is called with
    num_spins,      \* simulate_spins: its argument num_spins
    sim_pc,         \* simulate_spins: "for" at the head of the spin loop, "while" inside the search, "exit" after return
    spin,           \* simulate_spins: how many spins are complete
    random_value2,  \* simulate_spins: 2 * random_value of the current spin
    left,           \* simulate_spins: the local `left`
    right,          \* simulate_spins: the local `right`
    selected_outcome, \* simulate_spins: the local `selected_outcome` (SimNone for None)
    fallback_taken, \* simulate_spins: the current spin took the `selected_outcome is None` branch
    total_bet,      \* simulate_spins: the local `total_bet`
    total_winnings, \* simulate_spins: the local `total_winnings`
    jackpot_hits,   \* simulate_spins: the local `jackpot_hits`
    encode_pc,      \* "call" before the two digest inputs are built, "exit" after
    first_triple,   \* the seeds and counter of one session about to draw
    second_triple,  \* the seeds and counter of another session about to draw
    first_input,    \* combined_seed of the first session, per implementation
    second_input,   \* combined_seed of the second session, per implementation
    pair_impl,      \* two sessions run side by side: the implementation of each
    pair_config,    \* their common GameConfig
    pair_key,       \* their common digest function
    first_game,     \* the attributes of the first session's object
    second_game,    \* the attributes of the second session's object
    first_last,     \* the last call on the first session
    second_last     \* the same call on the second session

buildVars == <<target_rtp2, build_pc, build_status, build_message, outcomes>>
gameVars == <<impl, config, digest_key, game, last, probe, probe_first, probe_count, probe_differs>>

simVars == <<sim_outcomes, num_spins, sim_pc, spin, random_value2, left, right,
             selected_outcome, fallback_taken, total_bet, total_winnings, jackpot_hits>>

encVars == <<encode_pc, first_triple, second_triple, first_input, second_input>>

pairVars == <<pair_impl, pair_config, pair_key, first_game, second_game, first_last, second_last>>

vars == <<buildVars, gameVars, simVars, encVars, pairVars>>

\* the variables of the other parts, which an action of one part leaves alone
exceptBuild == <<gameVars, simVars, encVars, pairVars>>
exceptGame == <<buildVars, simVars, encVars, pairVars>>
exceptSim == <<buildVars, gameVars, encVars, pairVars>>
exceptEnc == <<buildVars, gameVars, simVars, pairVars>>
exceptPair == <<buildVars, gameVars, simVars, encVars>>

----------------------------------------------------------------------------
(* Bounds of the model *)

\* the grid of target RTPs: RtpLow2 + k * RtpStride2 + d, k in 0..MaxGridSteps, d in 0..MaxHalfSteps
MaxGridSteps == 24
MaxHalfSteps == 3

\* draws are made while nonce < MaxNonce
MaxNonce == 3

\* game_logic.set_seeds is called with nonce -1 or with nonce in 0..MaxStartNonce
MaxStartNonce == 0

\* the digest functions tried: multipliers 1..MaxKeyMul of the digest family
MaxKeyMul == 2

\* the digest functions tried while a triple is watched: offsets 0..MaxFairAdd, multiplier 1
MaxFairAdd == 0

\* the tables given to simulate_spins have 1..MaxRows rows
MaxRows == 3

\* each row of such a table has a weight in 0..MaxWeight
MaxWeight == 2

\* simulate_spins is called with num_spins in 1..MaxSpins
MaxSpins == 2

\* the seeds whose digest inputs are compared have at most MaxSeedLen characters
MaxSeedLen == 2

\* and their counters lie in 0..MaxEncodeNonce
MaxEncodeNonce == 1

----------------------------------------------------------------------------
(* Python arithmetic *)

\* round(v) for v = v2 / 2: Python 3 rounds halves to the even neighbour
PyRound(v2) ==
    LET q == v2 \div 2
    IN  IF v2 % 2 = 0 THEN q
        ELSE IF q % 2 = 0 THEN q ELSE q + 1

PyMin(a, b) == IF a <= b THEN a ELSE b

----------------------------------------------------------------------------
(* build_math_package.py: build_5000_outcomes *)

Outcome(id, probability_ppm, payout_multiplier) ==
    [id |-> id, probability_ppm |-> probability_ppm, payout_multiplier |-> payout_multiplier]

total_outcomes == 5000
others == total_outcomes - 1

jackpot_ppm == 1
jackpot_multiplier == 5000

base_ppm == 200
remainder == 999999 - others * base_ppm

\* half of the non-jackpot rows as losses: no majority
K0_half == others \div 2

K0 == 3000
K1 == others - K0

extra_ppm_for_winners == PyMin(remainder, K1)
extra_ppm_for_zeros == remainder - extra_ppm_for_winners

winners_ppm_sum == K1 * base_ppm + extra_ppm_for_winners

\* int(target_rtp * 1_000_000) without round(): truncation toward zero
target_total_ev_truncated(rtp2) ==
    IF rtp2 >= 0 THEN rtp2 \div 2 ELSE -((-rtp2) \div 2)

target_total_ev(rtp2) == PyRound(rtp2)
jackpot_ev == jackpot_ppm * jackpot_multiplier
others_target_ev(rtp2) == target_total_ev(rtp2) - jackpot_ev

\* the 2x floor of the winners counted once instead of twice
S3_single_winners(rtp2) == others_target_ev(rtp2) - winners_ppm_sum

S3(rtp2) == others_target_ev(rtp2) - 2 * winners_ppm_sum

\* if S3 < 0 or S3 > winners_ppm_sum: raise ValueError
S3OutOfRange(s3) == s3 < 0 \/ s3 > winners_ppm_sum

winners_201_count == extra_ppm_for_winners

\* while x_3x_201 > winners_201_count: x_3x_201 -= 200
RECURSIVE ClampDown(_)
ClampDown(x) == IF x > winners_201_count THEN ClampDown(x - 200) ELSE x

\* while x_3x_201 < 0: x_3x_201 += 200
RECURSIVE ClampUp(_)
ClampUp(x) == IF x < 0 THEN ClampUp(x + 200) ELSE x

x_3x_201(s3) == ClampUp(ClampDown(s3 % 200))

remaining_ppm_for_3x(s3) == s3 - 201 * x_3x_201(s3)

y_3x_200(s3) == remaining_ppm_for_3x(s3) \div 200

\* the upper limit taken over all winners instead of the 200-ppm winners
YOutOfRange_all_winners(y) == y < 0 \/ y > K1

\* only the lower limit of y tested
YOutOfRange_negative_only(y) == y < 0

\* if y_3x_200 < 0 or y_3x_200 > (K1 - winners_201_count): raise ValueError
YOutOfRange(y) == y < 0 \/ y > (K1 - winners_201_count)

\* for _ in range(zeros_to_make): ids from current_id = 1
ZeroRows(zeros_to_make) ==
    [i \in 1..zeros_to_make |-> Outcome(i, base_ppm, 0)]

\* the +1 ppm of the remainder rows forgotten
Winner201Rows_base_weight(current_id, winners_201_left, x_left) ==
    [k \in 1..winners_201_left |->
        Outcome(current_id + k - 1, base_ppm, IF k - 1 < x_left THEN 3 ELSE 2)]

\* for i in range(winners_201_left): mult = 3 if i < x_left else 2
Winner201Rows(current_id, winners_201_left, x_left) ==
    [k \in 1..winners_201_left |->
        Outcome(current_id + k - 1, base_ppm + 1, IF k - 1 < x_left THEN 3 ELSE 2)]

\* the 3x rows placed at the end of the 200-ppm winners instead of the start
Winner200Rows_3x_last(current_id, count, y_left) ==
    [k \in 1..count |->
        Outcome(current_id + k - 1, base_ppm, IF k - 1 >= count - y_left THEN 3 ELSE 2)]

\* for j in range(winners_to_make - winners_201_left): mult = 3 if j < y_left else 2
Winner200Rows(current_id, count, y_left) ==
    [k \in 1..count |->
        Outcome(current_id + k - 1, base_ppm, IF k - 1 < y_left THEN 3 ELSE 2)]

\* the 4,999 non-jackpot rows in the order they are appended
NonJackpotRows(x_left, y_left) ==
    LET zeros == ZeroRows(K0)
        w201  == Winner201Rows(1 + Len(zeros), winners_201_count, x_left)
        n200  == IF K1 - winners_201_count < 0 THEN 0 ELSE K1 - winners_201_count
        w200  == Winner200Rows(1 + Len(zeros) + Len(w201), n200, y_left)
    IN  zeros \o w201 \o w200

\* weight and multiplier of the jackpot row exchanged
JackpotRow_swapped(current_id) == Outcome(current_id, jackpot_multiplier, jackpot_ppm)

JackpotRow(current_id) == Outcome(current_id, jackpot_ppm, jackpot_multiplier)

Ppm(o) == o.probability_ppm
PpmTimesMult(o) == o.probability_ppm * o.payout_multiplier
LossPpm(o) == IF o.payout_multiplier = 0 THEN o.probability_ppm ELSE 0

\* the term of row o in one of the three sums of the final checks
Term(o, what) ==
    CASE what = "ppm" -> Ppm(o)
      [] what = "ev" -> PpmTimesMult(o)
      [] what = "loss" -> LossPpm(o)

\* sum(term of s[i] for i in lo..hi), split in halves to keep the evaluation shallow
RECURSIVE SumRange(_, _, _, _)
SumRange(s, what, lo, hi) ==
    IF lo > hi THEN 0
    ELSE IF lo = hi THEN Term(s[lo], what)
    ELSE LET mid == (lo + hi) \div 2
         IN  SumRange(s, what, lo, mid) + SumRange(s, what, mid + 1, hi)

SumOver(s, what) == SumRange(s, what, 1, Len(s))

Raised(kind, msg, outs) == [status |-> kind, message |-> msg, outcomes |-> outs]

\* lines 178-195: the sanity checks, the jackpot row, the final checks, the return
CheckAndReturn(rtp2, rows) ==
    IF Len(rows) # others
    THEN Raised("AssertionError", "Expected non-jackpot outcomes", rows)
    ELSE IF SumOver(rows, "ppm") # 999999
    THEN Raised("AssertionError", "Non-jackpot ppm must sum to 999,999", rows)
    ELSE LET all == Append(rows, JackpotRow(Len(rows) + 1))
         IN  IF SumOver(all, "ppm") # 1000000
             THEN Raised("AssertionError", "Total ppm must be 1,000,000", all)
             ELSE IF SumOver(all, "ev") # target_total_ev(rtp2)
             THEN Raised("AssertionError", "EV ppm*mult must be target", all)
             ELSE IF ~(SumOver(all, "loss") > 500000)
             THEN Raised("AssertionError", "Loss probability must be a majority", all)
             ELSE Raised("returned", "", all)

build_5000_outcomes(rtp2) ==
    LET s3 == S3(rtp2)
    IN  IF S3OutOfRange(s3)
        THEN Raised("ValueError", "Invalid configuration for winners' ppm split", <<>>)
        ELSE IF remaining_ppm_for_3x(s3) % 200 # 0
        THEN Raised("ValueError", "No integer solution for 3x allocation", <<>>)
        ELSE IF YOutOfRange(y_3x_200(s3))
        THEN Raised("ValueError", "3x 200ppm allocation exceeds available winners", <<>>)
        ELSE CheckAndReturn(rtp2, NonJackpotRows(x_3x_201(s3), y_3x_200(s3)))

----------------------------------------------------------------------------
(* Python values held by the seed attributes *)

PyNone == [kind |-> "None", chars |-> <<>>]
\* an attribute that was never assigned (hasattr is False)
PyMissing == [kind |-> "missing", chars |-> <<>>]
\* a str, as the sequence of its characters
PyStr(chars) == [kind |-> "str", chars |-> chars]

\* bool(v) of None or of a str
Truthy(v) == v.kind = "str" /\ v.chars # <<>>

\* f"{v}" of None or of a str
Format(v) == IF v.kind = "None" THEN <<"N", "o", "n", "e">> ELSE v.chars

DigitChars == <<"0", "1", "2", "3", "4", "5", "6", "7", "8", "9">>

\* f"{n}" of an int n
RECURSIVE IntStr(_)
IntStr(n) ==
    IF n < 0 THEN <<"-">> \o IntStr(0 - n)
    ELSE IF n < 10 THEN <<DigitChars[n + 1]>>
    ELSE IntStr(n \div 10) \o <<DigitChars[(n % 10) + 1]>>

\* the code point of a character of the seeds and counters used here
CharCode(c) ==
    CASE c = ":" -> 58
      [] c = "-" -> 45
      [] c = "a" -> 97
      [] c = "b" -> 98
      [] c = "N" -> 78
      [] c = "o" -> 111
      [] c = "n" -> 110
      [] c = "e" -> 101
      [] OTHER -> 48 + (CHOOSE d \in 0..9 : DigitChars[d + 1] = c)

----------------------------------------------------------------------------
(* The digest.  SHA-256 is not computed: int(sha256(input)[:8], 16) / 16**8  *)
(* is represented by one of a family of functions of the input bytes, each   *)
(* returning a drawn value in thousandths (floor(r * 1000)).  The values     *)
(* taken lie on both sides of every rate of the configurations below.        *)

SampleDraws == <<0, 1, 49, 50, 100, 249, 250, 399, 400, 500, 999>>

RECURSIVE FoldChars(_, _)
FoldChars(h, cs) ==
    IF cs = <<>> THEN h
    ELSE FoldChars((h * 31 + CharCode(Head(cs))) % 8191, Tail(cs))

Sha256Prefix(key, hash_input) ==
    SampleDraws[((FoldChars(7, hash_input) * key.mul + key.add) % Len(SampleDraws)) + 1]

DigestKeys == [mul : 1..MaxKeyMul, add : 0..(Len(SampleDraws) - 1)]

----------------------------------------------------------------------------
(* GameConfig: rates in thousandths, multipliers as integers *)

DefaultConfig ==
    [ base_win_rate |-> 250, bonus_win_rate |-> 400,
      regular_multiplier |-> 10, bonus_multipliers |-> <<15, 25>>,
      jackpot_multiplier |-> 5000,
      bonus_trigger_rate |-> 50, bonus_free_shots |-> 5,
      buy_bonus_multiplier |-> 100,
      jackpot_rate |-> 1 ]

\* a configuration whose jackpot rate lies between the trigger rate and the win rates
NestedJackpotConfig ==
    [ base_win_rate |-> 250, bonus_win_rate |-> 400,
      regular_multiplier |-> 8, bonus_multipliers |-> <<12, 20, 30>>,
      jackpot_multiplier |-> 1000,
      bonus_trigger_rate |-> 50, bonus_free_shots |-> 2,
      buy_bonus_multiplier |-> 50,
      jackpot_rate |-> 100 ]

\* a configuration whose jackpot rate is above both win rates
WideJackpotConfig ==
    [ base_win_rate |-> 250, bonus_win_rate |-> 400,
      regular_multiplier |-> 10, bonus_multipliers |-> <<15, 25>>,
      jackpot_multiplier |-> 5000,
      bonus_trigger_rate |-> 50, bonus_free_shots |-> 1,
      buy_bonus_multiplier |-> 100,
      jackpot_rate |-> 500 ]

Configs == {DefaultConfig, NestedJackpotConfig, WideJackpotConfig}

\* bet amounts in cents
BetAmounts == {100, 250}

\* the seeds passed to set_seeds
ServerSeedInputs == {<<>>, <<"a">>}
ClientSeedInputs == {<<>>, <<"b">>}

NoResult == [none |-> TRUE]

\* what a call that raises leaves behind
RaisedCall(self) == [raised |-> TRUE, value |-> -1, result |-> NoResult, self |-> self]
Returned(value, result, self) == [raised |-> FALSE, value |-> value, result |-> result, self |-> self]

----------------------------------------------------------------------------
(* basketball_slot_game.py: BasketballSlotGame *)

ShotResult(is_win, multiplier, is_bonus, is_jackpot, winnings, free_spins_remaining) ==
    [ is_win |-> is_win, multiplier |-> multiplier, is_bonus |-> is_bonus,
      is_jackpot |-> is_jackpot, winnings |-> winnings,
      free_spins_remaining |-> free_spins_remaining ]

\* __init__ (game_state, total_winnings and games_played are never written again
\* except game_state = IDLE in reset_game, and are left out)
slot_init ==
    [ free_spins_remaining |-> 0, server_seed |-> PyNone, client_seed |-> PyNone, nonce |-> 0 ]

slot_set_seeds(self, server_seed, client_seed) ==
    [ self EXCEPT !.server_seed = server_seed,
                  !.client_seed = IF Truthy(client_seed) THEN client_seed ELSE PyStr(<<>>),
                  !.nonce = 0 ]

\* a combined seed that also depends on the free spins left
slot_combined_seed_with_spins(self) ==
    Format(self.server_seed) \o <<":">> \o Format(self.client_seed) \o <<":">>
        \o IntStr(self.nonce) \o <<":">> \o IntStr(self.free_spins_remaining)

slot_combined_seed(self) ==
    Format(self.server_seed) \o <<":">> \o Format(self.client_seed) \o <<":">> \o IntStr(self.nonce)

slot_generate_random(self, key) ==
    IF ~Truthy(self.server_seed)
    THEN RaisedCall(self)
    ELSE Returned(Sha256Prefix(key, slot_combined_seed(self)), NoResult,
                  [self EXCEPT !.nonce = @ + 1])

slot_create_bonus_trigger_result(self, cfg, bet_amount) ==
    LET s1 == [self EXCEPT !.free_spins_remaining = cfg.bonus_free_shots]
    IN  [ result |-> ShotResult(TRUE, cfg.regular_multiplier, TRUE, FALSE,
                                bet_amount * cfg.regular_multiplier, s1.free_spins_remaining),
          self |-> s1 ]

\* pick: the index random.choice takes in bonus_multipliers
\* a bonus win that keeps its free spin when the first bonus multiplier is chosen
slot_create_win_result_pick_keeps_spin(self, cfg, bet_amount, random_value, pick) ==
    LET is_jackpot == random_value < cfg.jackpot_rate
        multiplier ==
            IF is_jackpot THEN cfg.jackpot_multiplier
            ELSE IF self.free_spins_remaining > 0 THEN cfg.bonus_multipliers[pick]
            ELSE cfg.regular_multiplier
        s1 == IF self.free_spins_remaining > 0 /\ (is_jackpot \/ pick # 1)
              THEN [self EXCEPT !.free_spins_remaining = @ - 1]
              ELSE self
    IN  [ result |-> ShotResult(TRUE, multiplier, FALSE, is_jackpot,
                                bet_amount * multiplier, s1.free_spins_remaining),
          self |-> s1 ]

\* a win whose free spin is used up before the multiplier is chosen
slot_create_win_result_decrement_first(self, cfg, bet_amount, random_value, pick) ==
    LET is_jackpot == random_value < cfg.jackpot_rate
        s1 == IF self.free_spins_remaining > 0
              THEN [self EXCEPT !.free_spins_remaining = @ - 1]
              ELSE self
        multiplier ==
            IF is_jackpot THEN cfg.jackpot_multiplier
            ELSE IF s1.free_spins_remaining > 0 THEN cfg.bonus_multipliers[pick]
            ELSE cfg.regular_multiplier
    IN  [ result |-> ShotResult(TRUE, multiplier, FALSE, is_jackpot,
                                bet_amount * multiplier, s1.free_spins_remaining),
          self |-> s1 ]

slot_create_win_result(self, cfg, bet_amount, random_value, pick) ==
    LET is_jackpot == random_value < cfg.jackpot_rate
        multiplier ==
            IF is_jackpot THEN cfg.jackpot_multiplier
            ELSE IF self.free_spins_remaining > 0 THEN cfg.bonus_multipliers[pick]
            ELSE cfg.regular_multiplier
        s1 == IF self.free_spins_remaining > 0
              THEN [self EXCEPT !.free_spins_remaining = @ - 1]
              ELSE self
    IN  [ result |-> ShotResult(TRUE, multiplier, FALSE, is_jackpot,
                                bet_amount * multiplier, s1.free_spins_remaining),
          self |-> s1 ]

\* a miss that leaves the free spins alone
slot_create_loss_result_no_decrement(self, bet_amount) ==
    [ result |-> ShotResult(FALSE, 0, FALSE, FALSE, 0, self.free_spins_remaining),
      self |-> self ]

slot_create_loss_result(self, bet_amount) ==
    LET s1 == IF self.free_spins_remaining > 0
              THEN [self EXCEPT !.free_spins_remaining = @ - 1]
              ELSE self
    IN  [ result |-> ShotResult(FALSE, 0, FALSE, FALSE, 0, s1.free_spins_remaining),
          self |-> s1 ]

\* a round in which a draw below jackpot_rate counts as a win whatever the win rate
slot_determine_shot_outcome_jackpot_wins(self, cfg, key, bet_amount, pick) ==
    LET draw == slot_generate_random(self, key)
    IN  IF draw.raised THEN RaisedCall(self)
        ELSE LET random_value == draw.value
                 s1 == draw.self
                 is_bonus_trigger ==
                     random_value < cfg.bonus_trigger_rate /\ s1.free_spins_remaining = 0
                 win_rate == IF s1.free_spins_remaining > 0
                             THEN cfg.bonus_win_rate ELSE cfg.base_win_rate
                 is_win == random_value < win_rate \/ random_value < cfg.jackpot_rate
                 out == IF is_bonus_trigger
                        THEN slot_create_bonus_trigger_result(s1, cfg, bet_amount)
                        ELSE IF is_win
                        THEN slot_create_win_result(s1, cfg, bet_amount, random_value, pick)
                        ELSE slot_create_loss_result(s1, bet_amount)
             IN  Returned(random_value, out.result, out.self)

slot_determine_shot_outcome(self, cfg, key, bet_amount, pick) ==
    LET draw == slot_generate_random(self, key)
    IN  IF draw.raised THEN RaisedCall(self)
        ELSE LET random_value == draw.value
                 s1 == draw.self
                 is_bonus_trigger ==
                     random_value < cfg.bonus_trigger_rate /\ s1.free_spins_remaining = 0
                 win_rate == IF s1.free_spins_remaining > 0
                             THEN cfg.bonus_win_rate ELSE cfg.base_win_rate
                 is_win == random_value < win_rate
                 out == IF is_bonus_trigger
                        THEN slot_create_bonus_trigger_result(s1, cfg, bet_amount)
                        ELSE IF is_win
                        THEN slot_create_win_result(s1, cfg, bet_amount, random_value, pick)
                        ELSE slot_create_loss_result(s1, bet_amount)
             IN  Returned(random_value, out.result, out.self)

\* a purchase that advances the nonce
slot_buy_bonus_advances_nonce(self, cfg, bet_amount) ==
    IF self.free_spins_remaining > 0
    THEN RaisedCall(self)
    ELSE LET s1 == [self EXCEPT !.free_spins_remaining = cfg.bonus_free_shots,
                                !.nonce = @ + 1]
         IN  Returned(-1, ShotResult(TRUE, 0, TRUE, FALSE, 0, s1.free_spins_remaining), s1)

slot_buy_bonus(self, cfg, bet_amount) ==
    IF self.free_spins_remaining > 0
    THEN RaisedCall(self)
    ELSE LET s1 == [self EXCEPT !.free_spins_remaining = cfg.bonus_free_shots]
         IN  Returned(-1, ShotResult(TRUE, 0, TRUE, FALSE, 0, s1.free_spins_remaining), s1)

slot_reset_game(self) ==
    [self EXCEPT !.free_spins_remaining = 0, !.nonce = 0]

----------------------------------------------------------------------------
(* game_logic.py: BasketballSlotGame *)

RoundResult(outcome, multiplier, winnings, is_bonus, is_jackpot, spins, rtp_contribution) ==
    [ outcome |-> outcome, multiplier |-> multiplier, winnings |-> winnings,
      is_bonus |-> is_bonus, is_jackpot |-> is_jackpot,
      free_spins_remaining |-> spins,
      rtp_contribution |-> rtp_contribution ]

\* __init__ assigns neither the seeds nor nonce; nonce is only read after the
\* hasattr test on server_seed, and set_seeds assigns all three together
logic_init ==
    [ free_spins_remaining |-> 0, server_seed |-> PyMissing, client_seed |-> PyMissing,
      nonce |-> 0 ]

\* a seeding that leaves the counter where it is
logic_set_seeds_keeps_nonce(self, server_seed, client_seed, nonce) ==
    [ self EXCEPT !.server_seed = server_seed, !.client_seed = client_seed ]

logic_set_seeds(self, server_seed, client_seed, nonce) ==
    [ self EXCEPT !.server_seed = server_seed, !.client_seed = client_seed, !.nonce = nonce ]

logic_combined_seed(self) ==
    Format(self.server_seed) \o <<":">> \o Format(self.client_seed) \o <<":">> \o IntStr(self.nonce)

logic_generate_random(self, key) ==
    IF self.server_seed.kind = "missing"
    THEN RaisedCall(self)
    ELSE Returned(Sha256Prefix(key, logic_combined_seed(self)), NoResult,
                  [self EXCEPT !.nonce = @ + 1])

\* a trigger round that already uses up one of the free shots
logic_create_bonus_trigger_result_decremented(self, cfg, bet_amount) ==
    LET s1 == [self EXCEPT !.free_spins_remaining = cfg.bonus_free_shots - 1]
    IN  [ result |-> RoundResult("bonus_trigger", cfg.regular_multiplier,
                                 bet_amount * cfg.regular_multiplier, TRUE, FALSE,
                                 s1.free_spins_remaining,
                                 cfg.regular_multiplier * cfg.bonus_trigger_rate),
          self |-> s1 ]

logic_create_bonus_trigger_result(self, cfg, bet_amount) ==
    LET s1 == [self EXCEPT !.free_spins_remaining = cfg.bonus_free_shots]
    IN  [ result |-> RoundResult("bonus_trigger", cfg.regular_multiplier,
                                 bet_amount * cfg.regular_multiplier, TRUE, FALSE,
                                 s1.free_spins_remaining,
                                 cfg.regular_multiplier * cfg.bonus_trigger_rate),
          self |-> s1 ]

logic_create_win_result(self, cfg, bet_amount, random_value, pick) ==
    LET is_jackpot == random_value < cfg.jackpot_rate
        multiplier ==
            IF is_jackpot THEN cfg.jackpot_multiplier
            ELSE IF self.free_spins_remaining > 0 THEN cfg.bonus_multipliers[pick]
            ELSE cfg.regular_multiplier
        outcome == IF is_jackpot THEN "jackpot" ELSE "score"
        s1 == IF self.free_spins_remaining > 0
              THEN [self EXCEPT !.free_spins_remaining = @ - 1]
              ELSE self
    IN  [ result |-> RoundResult(outcome, multiplier, bet_amount * multiplier, FALSE,
                                 is_jackpot, s1.free_spins_remaining,
                                 multiplier * (IF s1.free_spins_remaining > 0
                                               THEN cfg.bonus_win_rate
                                               ELSE cfg.base_win_rate)),
          self |-> s1 ]

\* a miss during the bonus that does not use up a free spin
logic_create_loss_result_keeps_spins(self, bet_amount) ==
    [ result |-> RoundResult("miss", 0, 0, FALSE, FALSE, self.free_spins_remaining, 0),
      self |-> self ]

logic_create_loss_result(self, bet_amount) ==
    LET s1 == IF self.free_spins_remaining > 0
              THEN [self EXCEPT !.free_spins_remaining = @ - 1]
              ELSE self
    IN  [ result |-> RoundResult("miss", 0, 0, FALSE, FALSE, s1.free_spins_remaining, 0),
          self |-> s1 ]

logic_determine_outcome(self, cfg, key, bet_amount, pick) ==
    LET draw == logic_generate_random(self, key)
    IN  IF draw.raised THEN RaisedCall(self)
        ELSE LET random_value == draw.value
                 s1 == draw.self
                 win_rate == IF s1.free_spins_remaining > 0
                             THEN cfg.bonus_win_rate ELSE cfg.base_win_rate
                 out == IF s1.free_spins_remaining = 0 /\ random_value < cfg.bonus_trigger_rate
                        THEN logic_create_bonus_trigger_result(s1, cfg, bet_amount)
                        ELSE IF random_value < win_rate
                        THEN logic_create_win_result(s1, cfg, bet_amount, random_value, pick)
                        ELSE logic_create_loss_result(s1, bet_amount)
             IN  Returned(random_value, out.result, out.self)

\* a purchase that is not refused while free spins are left
logic_buy_bonus_unguarded(self, cfg, bet_amount) ==
    LET s1 == [self EXCEPT !.free_spins_remaining = cfg.bonus_free_shots]
    IN  Returned(-1, RoundResult("bonus_trigger", 0, 0, TRUE, FALSE,
                                 s1.free_spins_remaining, 0), s1)

\* a purchase that books its cost as negative winnings
logic_buy_bonus_charges(self, cfg, bet_amount) ==
    IF self.free_spins_remaining > 0
    THEN RaisedCall(self)
    ELSE LET cost == bet_amount * cfg.buy_bonus_multiplier
             s1 == [self EXCEPT !.free_spins_remaining = cfg.bonus_free_shots]
         IN  Returned(-1, RoundResult("bonus_trigger", 0, 0 - cost, TRUE, FALSE,
                                      s1.free_spins_remaining, 0), s1)

logic_buy_bonus(self, cfg, bet_amount) ==
    IF self.free_spins_remaining > 0
    THEN RaisedCall(self)
    ELSE LET s1 == [self EXCEPT !.free_spins_remaining = cfg.bonus_free_shots]
         IN  Returned(-1, RoundResult("bonus_trigger", 0, 0, TRUE, FALSE,
                                      s1.free_spins_remaining, 0), s1)

----------------------------------------------------------------------------
(* The target RTPs the builder is called with, in half ppm *)

RtpLow2 == 1600000
RtpStride2 == 34567

\* 0.94 (the shipped target), 0, negative targets, and the ends of the window of S3
ScenarioRtps2 ==
    { 1880000, 0, -1, -3,
      2 * 804998 - 1, 2 * 804998, 2 * 804998 + 1,
      2 * 804997, 2 * 1204997, 2 * 1204998,
      2 * (804998 + 199), 2 * (804998 + 200), 2 * (804998 + 201),
      2 * (804998 + 399800), 2 * (804998 + 360000), 2 * (804998 + 360201) }

TargetRtps2 ==
    { RtpLow2 + k * RtpStride2 + d : k \in 0..MaxGridSteps, d \in 0..MaxHalfSteps }
    \cup ScenarioRtps2

----------------------------------------------------------------------------
(* The state machine *)

NoProbe == <<>>
NoDraw == [value |-> -1, free_spins |-> -1]

\* the (server_seed, client_seed, counter) triples a draw can consume
ProbeTriples ==
    { <<s, c, n>> : s \in ServerSeedInputs, c \in ClientSeedInputs, n \in 0..(MaxNonce - 1) }

\* the triple a draw made by `self` consumes
Triple(self) == <<self.server_seed.chars, self.client_seed.chars, self.nonce>>

\* the record of a call: what it was given, the state it found, what it drew and returned
Call(op, bet_amount, before, out) ==
    [ op |-> op, bet |-> bet_amount, raised |-> out.raised, r |-> out.value,
      before |-> before, result |-> out.result ]

NoCall(self) == Call("none", 0, self, Returned(-1, NoResult, self))

\* no table is being built
BuildIdle ==
    /\ target_rtp2 = 0
    /\ build_pc = "idle"
    /\ build_status = "none"
    /\ build_message = ""
    /\ outcomes = <<>>

\* no game object exists
GameIdle ==
    /\ impl = "none"
    /\ config = DefaultConfig
    /\ digest_key = [mul |-> 1, add |-> 0]
    /\ game = slot_init
    /\ last = NoCall(slot_init)
    /\ probe = NoProbe
    /\ probe_first = NoDraw
    /\ probe_count = 0
    /\ probe_differs = FALSE

\* the value None of the local selected_outcome
SimNone == Outcome(0, 0, 0)

\* simulate_spins is not running
SimIdle ==
    /\ sim_outcomes = <<>>
    /\ num_spins = 0
    /\ sim_pc = "idle"
    /\ spin = 0
    /\ random_value2 = 0
    /\ left = 0
    /\ right = 0
    /\ selected_outcome = SimNone
    /\ fallback_taken = FALSE
    /\ total_bet = 0
    /\ total_winnings = 0
    /\ jackpot_hits = 0

\* no session and no combined_seed
NoTriple == [server_seed |-> PyNone, client_seed |-> PyNone, nonce |-> 0]
NoInput == [slot |-> <<>>, logic |-> <<>>]

\* no digest input is being compared
EncIdle ==
    /\ encode_pc = "idle"
    /\ first_triple = NoTriple
    /\ second_triple = NoTriple
    /\ first_input = NoInput
    /\ second_input = NoInput

\* no two sessions run side by side
PairIdle ==
    /\ pair_impl = <<"none", "none">>
    /\ pair_config = DefaultConfig
    /\ pair_key = [mul |-> 1, add |-> 0]
    /\ first_game = slot_init
    /\ second_game = slot_init
    /\ first_last = NoCall(slot_init)
    /\ second_last = NoCall(slot_init)

BuildInit ==
    /\ target_rtp2 \in TargetRtps2
    /\ build_pc = "call"
    /\ build_status = "none"
    /\ build_message = ""
    /\ outcomes = <<>>
    /\ GameIdle
    /\ SimIdle
    /\ EncIdle
    /\ PairIdle

\* one call of build_5000_outcomes(target_rtp)
Build ==
    /\ build_pc = "call"
    /\ LET res == build_5000_outcomes(target_rtp2)
       IN  /\ build_status' = res.status
           /\ build_message' = res.message
           /\ outcomes' = res.outcomes
    /\ build_pc' = "exit"
    /\ UNCHANGED <<target_rtp2, exceptBuild>>

BuildNext == Build

SpecBuild == BuildInit /\ [][BuildNext]_vars

\* a game object right after construction, of either implementation
GameCreated ==
    /\ impl \in {"slot", "logic"}
    /\ game = IF impl = "slot" THEN slot_init ELSE logic_init
    /\ last = NoCall(game)
    /\ probe_first = NoDraw
    /\ probe_count = 0
    /\ probe_differs = FALSE
    /\ BuildIdle
    /\ SimIdle
    /\ EncIdle
    /\ PairIdle

GameInit ==
    /\ GameCreated
    /\ config \in Configs
    /\ digest_key \in DigestKeys
    /\ probe = NoProbe

\* a draw by `before` that returned is counted when it consumes the watched triple
Observe(before, out, drew) ==
    IF drew /\ ~out.raised /\ probe = Triple(before)
    THEN /\ probe_first' = IF probe_count = 0
                           THEN [value |-> out.value, free_spins |-> before.free_spins_remaining]
                           ELSE probe_first
         /\ probe_count' = IF probe_count < 2 THEN probe_count + 1 ELSE 2
         /\ probe_differs' = (probe_differs \/ (probe_count > 0 /\ out.value # probe_first.value))
    ELSE UNCHANGED <<probe_first, probe_count, probe_differs>>

\* a call that draws nothing
Step(op, bet_amount, out) ==
    /\ game' = out.self
    /\ last' = Call(op, bet_amount, game, out)
    /\ UNCHANGED <<impl, config, digest_key, probe, probe_first, probe_count, probe_differs, exceptGame>>

\* a call that makes one draw
DrawStep(op, bet_amount, out) ==
    /\ game' = out.self
    /\ last' = Call(op, bet_amount, game, out)
    /\ Observe(game, out, TRUE)
    /\ UNCHANGED <<impl, config, digest_key, probe, exceptGame>>

SlotSetSeeds ==
    /\ impl = "slot"
    /\ \E server_seed \in ServerSeedInputs :
       \E client_seed \in {PyNone} \cup { PyStr(c) : c \in ClientSeedInputs } :
           Step("set_seeds", 0,
                Returned(-1, NoResult, slot_set_seeds(game, PyStr(server_seed), client_seed)))

SlotGenerateRandom ==
    /\ impl = "slot"
    /\ game.nonce < MaxNonce
    /\ DrawStep("generate_random", 0, slot_generate_random(game, digest_key))

SlotDetermineShotOutcome ==
    /\ impl = "slot"
    /\ game.nonce < MaxNonce
    /\ \E bet_amount \in BetAmounts :
       \E pick \in 1..Len(config.bonus_multipliers) :
           DrawStep("round", bet_amount,
                    slot_determine_shot_outcome(game, config, digest_key, bet_amount, pick))

SlotBuyBonus ==
    /\ impl = "slot"
    /\ \E bet_amount \in BetAmounts :
           Step("buy_bonus", bet_amount, slot_buy_bonus(game, config, bet_amount))

SlotResetGame ==
    /\ impl = "slot"
    /\ Step("reset_game", 0, Returned(-1, NoResult, slot_reset_game(game)))

\* the values passed for the int parameter nonce of game_logic's set_seeds,
\* which the code stores unchecked
StartNonces == {-1} \cup 0..MaxStartNonce

\* the call is recorded as "set_seeds" when nonce has its default 0, and as
\* "set_seeds_nonce" when the caller passes another starting nonce
LogicSetSeeds ==
    /\ impl = "logic"
    /\ \E server_seed \in ServerSeedInputs :
       \E client_seed \in ClientSeedInputs :
       \E nonce \in StartNonces :
           Step(IF nonce = 0 THEN "set_seeds" ELSE "set_seeds_nonce", 0,
                Returned(-1, NoResult,
                         logic_set_seeds(game, PyStr(server_seed), PyStr(client_seed), nonce)))

LogicGenerateRandom ==
    /\ impl = "logic"
    /\ game.nonce < MaxNonce
    /\ DrawStep("generate_random", 0, logic_generate_random(game, digest_key))

LogicDetermineOutcome ==
    /\ impl = "logic"
    /\ game.nonce < MaxNonce
    /\ \E bet_amount \in BetAmounts :
       \E pick \in 1..Len(config.bonus_multipliers) :
           DrawStep("round", bet_amount,
                    logic_determine_outcome(game, config, digest_key, bet_amount, pick))

LogicBuyBonus ==
    /\ impl = "logic"
    /\ \E bet_amount \in BetAmounts :
           Step("buy_bonus", bet_amount, logic_buy_bonus(game, config, bet_amount))

GameNext ==
    \/ SlotSetSeeds
    \/ SlotGenerateRandom
    \/ SlotDetermineShotOutcome
    \/ SlotBuyBonus
    \/ SlotResetGame
    \/ LogicSetSeeds
    \/ LogicGenerateRandom
    \/ LogicDetermineOutcome
    \/ LogicBuyBonus

\* sessions of either implementation under every configuration and digest
SpecGame == GameInit /\ [][GameNext]_vars

\* the same sessions with one triple watched
FairKeys == [mul : {1}, add : 0..MaxFairAdd]

FairInit ==
    /\ GameCreated
    /\ config = DefaultConfig
    /\ digest_key \in FairKeys
    /\ probe \in ProbeTriples

SpecFair == FairInit /\ [][GameNext]_vars

----------------------------------------------------------------------------
(* simulate_rtp.py: simulate_spins.  random_value = random.random() *     *)
(* total_ppm is a real in [0, total_ppm); it is held in half units, so    *)
(* that the draws equal to a cumulative weight and the draws strictly     *)
(* between two of them both exist.                                        *)

\* the tables simulate_spins is called with: 1..MaxRows rows, ids 1..n in
\* order, weights 0..MaxWeight with at least one unit in total, the last row
\* paying 5000x and the rows before it 0x, 1x, 2x, ...
SimTables ==
    UNION { { [i \in 1..n |-> Outcome(i, w[i], IF i = n THEN 5000 ELSE i - 1)] :
                w \in { v \in [1..n -> 0..MaxWeight] : \E i \in 1..n : v[i] > 0 } } :
            n \in 1..MaxRows }

\* total_ppm = sum(o.probability_ppm for o in outcomes)
total_ppm(outs) == SumOver(outs, "ppm")

\* cumulative_dist: the pairs (cumulative_ppm, outcome), in table order
cumulative_dist(outs) ==
    [i \in 1..Len(outs) |-> <<SumRange(outs, "ppm", 1, i), outs[i]>>]

\* a call simulate_spins(outcomes, num_spins), at the head of its spin loop
SimInit ==
    /\ sim_outcomes \in SimTables
    /\ num_spins \in 1..MaxSpins
    /\ sim_pc = "for"
    /\ spin = 0
    /\ random_value2 = 0
    /\ left = 0
    /\ right = 0
    /\ selected_outcome = SimNone
    /\ fallback_taken = FALSE
    /\ total_bet = 0
    /\ total_winnings = 0
    /\ jackpot_hits = 0
    /\ BuildIdle
    /\ GameIdle
    /\ EncIdle
    /\ PairIdle

\* the head of one spin: the draw, and the initialisation of the search
SimSpin ==
    /\ sim_pc = "for"
    /\ spin < num_spins
    /\ random_value2' \in 0..(2 * total_ppm(sim_outcomes) - 1)
    /\ left' = 0
    /\ right' = Len(cumulative_dist(sim_outcomes)) - 1
    /\ selected_outcome' = SimNone
    /\ fallback_taken' = FALSE
    /\ sim_pc' = "while"
    /\ UNCHANGED <<sim_outcomes, num_spins, spin, total_bet, total_winnings, jackpot_hits,
                   exceptSim>>

\* an iteration that keeps the first candidate found instead of the latest
SimLoop_keeps_first ==
    /\ sim_pc = "while"
    /\ left <= right
    /\ LET mid == (left + right) \div 2
       IN  IF random_value2 <= 2 * cumulative_dist(sim_outcomes)[mid + 1][1]
           THEN /\ selected_outcome' = IF selected_outcome = SimNone
                                       THEN cumulative_dist(sim_outcomes)[mid + 1][2]
                                       ELSE selected_outcome
                /\ right' = mid - 1
                /\ left' = left
           ELSE /\ left' = mid + 1
                /\ right' = right
                /\ selected_outcome' = selected_outcome
    /\ UNCHANGED <<sim_outcomes, num_spins, sim_pc, spin, random_value2, fallback_taken,
                   total_bet, total_winnings, jackpot_hits, exceptSim>>

\* one iteration of `while left <= right` (the list is indexed from 0)
SimLoop ==
    /\ sim_pc = "while"
    /\ left <= right
    /\ LET mid == (left + right) \div 2
       IN  IF random_value2 <= 2 * cumulative_dist(sim_outcomes)[mid + 1][1]
           THEN /\ selected_outcome' = cumulative_dist(sim_outcomes)[mid + 1][2]
                /\ right' = mid - 1
                /\ left' = left
           ELSE /\ left' = mid + 1
                /\ right' = right
                /\ selected_outcome' = selected_outcome
    /\ UNCHANGED <<sim_outcomes, num_spins, sim_pc, spin, random_value2, fallback_taken,
                   total_bet, total_winnings, jackpot_hits, exceptSim>>

\* the rest of the spin after the search: the fallback, the bet of 1.0 and
\* the winnings of the selected row
SimSelected ==
    /\ sim_pc = "while"
    /\ left > right
    /\ fallback_taken' = (selected_outcome = SimNone)
    /\ selected_outcome' = IF selected_outcome = SimNone
                           THEN cumulative_dist(sim_outcomes)[Len(sim_outcomes)][2]
                           ELSE selected_outcome
    /\ total_bet' = total_bet + 1
    /\ total_winnings' = total_winnings + selected_outcome'.payout_multiplier
    /\ jackpot_hits' = IF selected_outcome'.payout_multiplier = 5000
                       THEN jackpot_hits + 1 ELSE jackpot_hits
    /\ spin' = spin + 1
    /\ sim_pc' = "for"
    /\ UNCHANGED <<sim_outcomes, num_spins, random_value2, left, right, exceptSim>>

\* the spin loop is over: simulate_spins returns its totals
SimReturn ==
    /\ sim_pc = "for"
    /\ spin = num_spins
    /\ sim_pc' = "exit"
    /\ UNCHANGED <<sim_outcomes, num_spins, spin, random_value2, left, right, selected_outcome,
                   fallback_taken, total_bet, total_winnings, jackpot_hits, exceptSim>>

SimNext ==
    \/ SimSpin
    \/ SimLoop
    \/ SimSelected
    \/ SimReturn

\* one call of simulate_spins on every small table
SpecSim == SimInit /\ [][SimNext]_vars

\* the same call, run to its end: the interpreter keeps executing the next
\* statement of simulate_spins as long as there is one
SpecSimRuns == SimInit /\ [][SimNext]_vars /\ WF_vars(SimNext)

----------------------------------------------------------------------------
(* generate_random of both files: the string combined_seed that is encoded  *)
(* and fed to SHA-256, built for two sessions side by side.                 *)

\* the strings of at most n characters over "a" and ":"
RECURSIVE SeedStrings(_)
SeedStrings(n) ==
    IF n = 0 THEN { <<>> }
    ELSE SeedStrings(n - 1)
             \cup { s \o <<c>> : s \in { t \in SeedStrings(n - 1) : Len(t) = n - 1 },
                                 c \in {"a", ":"} }

\* a session about to draw: a non-empty server seed (generate_random raises
\* on an empty one), any client seed, and the counter after some draws
EncodeTriples ==
    { [server_seed |-> PyStr(s), client_seed |-> PyStr(c), nonce |-> n] :
        s \in SeedStrings(MaxSeedLen) \ { <<>> },
        c \in SeedStrings(MaxSeedLen),
        n \in 0..MaxEncodeNonce }

\* the object of each implementation that set_seeds and the draws so far
\* leave for a triple
SlotSessionOf(t) ==
    [slot_set_seeds(slot_init, t.server_seed, t.client_seed) EXCEPT !.nonce = t.nonce]
LogicSessionOf(t) ==
    logic_set_seeds(logic_init, t.server_seed, t.client_seed, t.nonce)

\* combined_seed as each implementation builds it
CombinedSeeds(t) ==
    [ slot |-> slot_combined_seed(SlotSessionOf(t)),
      logic |-> logic_combined_seed(LogicSessionOf(t)) ]

EncodeInit ==
    /\ encode_pc = "call"
    /\ first_triple \in EncodeTriples
    /\ second_triple \in EncodeTriples
    /\ first_input = NoInput
    /\ second_input = NoInput
    /\ BuildIdle
    /\ GameIdle
    /\ SimIdle
    /\ PairIdle

\* both sessions build their combined_seed
Encode ==
    /\ encode_pc = "call"
    /\ first_input' = CombinedSeeds(first_triple)
    /\ second_input' = CombinedSeeds(second_triple)
    /\ encode_pc' = "exit"
    /\ UNCHANGED <<first_triple, second_triple, exceptEnc>>

EncodeNext == Encode

\* two sessions with seeds that may contain ':' build their digest inputs
SpecEncode == EncodeInit /\ [][EncodeNext]_vars

----------------------------------------------------------------------------
(* Two sessions side by side: the same configuration, digest, seeds and     *)
(* calls, each session with its own random.choice.  The two are objects of  *)
(* one implementation, or one object of each file.                          *)

PairImpls == { <<"slot", "slot">>, <<"logic", "logic">>, <<"slot", "logic">> }

\* the server seeds of the paired sessions are non-empty
PairServerSeeds == ServerSeedInputs \ { <<>> }

InitOf(im) == IF im = "slot" THEN slot_init ELSE logic_init

\* set_seeds(server_seed, client_seed), nonce left to its default in game_logic
SetSeedsOf(im, self, server_seed, client_seed) ==
    IF im = "slot"
    THEN slot_set_seeds(self, server_seed, client_seed)
    ELSE logic_set_seeds(self, server_seed, client_seed, 0)

GenerateRandomOf(im, self, key) ==
    IF im = "slot" THEN slot_generate_random(self, key) ELSE logic_generate_random(self, key)

\* determine_shot_outcome / determine_outcome
RoundOf(im, self, cfg, key, bet_amount, pick) ==
    IF im = "slot"
    THEN slot_determine_shot_outcome(self, cfg, key, bet_amount, pick)
    ELSE logic_determine_outcome(self, cfg, key, bet_amount, pick)

BuyBonusOf(im, self, cfg, bet_amount) ==
    IF im = "slot"
    THEN slot_buy_bonus(self, cfg, bet_amount)
    ELSE logic_buy_bonus(self, cfg, bet_amount)

PairInit ==
    /\ pair_impl \in PairImpls
    /\ pair_config \in Configs
    /\ pair_key \in DigestKeys
    /\ first_game = InitOf(pair_impl[1])
    /\ second_game = InitOf(pair_impl[2])
    /\ first_last = NoCall(first_game)
    /\ second_last = NoCall(second_game)
    /\ BuildIdle
    /\ GameIdle
    /\ SimIdle
    /\ EncIdle

\* the same call made on both sessions
PairStep(op, bet_amount, first_out, second_out) ==
    /\ first_game' = first_out.self
    /\ second_game' = second_out.self
    /\ first_last' = Call(op, bet_amount, first_game, first_out)
    /\ second_last' = Call(op, bet_amount, second_game, second_out)
    /\ UNCHANGED <<pair_impl, pair_config, pair_key, exceptPair>>

PairSetSeeds ==
    \E server_seed \in PairServerSeeds :
    \E client_seed \in ClientSeedInputs :
        PairStep("set_seeds", 0,
                 Returned(-1, NoResult,
                          SetSeedsOf(pair_impl[1], first_game, PyStr(server_seed), PyStr(client_seed))),
                 Returned(-1, NoResult,
                          SetSeedsOf(pair_impl[2], second_game, PyStr(server_seed), PyStr(client_seed))))

PairGenerateRandom ==
    /\ first_game.nonce < MaxNonce
    /\ second_game.nonce < MaxNonce
    /\ PairStep("generate_random", 0,
                GenerateRandomOf(pair_impl[1], first_game, pair_key),
                GenerateRandomOf(pair_impl[2], second_game, pair_key))

\* one round on each session; random.choice picks independently in each
PairRound ==
    /\ first_game.nonce < MaxNonce
    /\ second_game.nonce < MaxNonce
    /\ \E bet_amount \in BetAmounts :
       \E first_pick \in 1..Len(pair_config.bonus_multipliers) :
       \E second_pick \in 1..Len(pair_config.bonus_multipliers) :
           PairStep("round", bet_amount,
                    RoundOf(pair_impl[1], first_game, pair_config, pair_key, bet_amount, first_pick),
                    RoundOf(pair_impl[2], second_game, pair_config, pair_key, bet_amount, second_pick))

PairBuyBonus ==
    \E bet_amount \in BetAmounts :
        PairStep("buy_bonus", bet_amount,
                 BuyBonusOf(pair_impl[1], first_game, pair_config, bet_amount),
                 BuyBonusOf(pair_impl[2], second_game, pair_config, bet_amount))

\* reset_game exists in basketball_slot_game.py only
PairResetGame ==
    /\ pair_impl = <<"slot", "slot">>
    /\ PairStep("reset_game", 0,
                Returned(-1, NoResult, slot_reset_game(first_game)),
                Returned(-1, NoResult, slot_reset_game(second_game)))

PairNext ==
    \/ PairSetSeeds
    \/ PairGenerateRandom
    \/ PairRound
    \/ PairBuyBonus
    \/ PairResetGame

\* two sessions given the same calls
SpecPair == PairInit /\ [][PairNext]_vars

----------------------------------------------------------------------------
(* Properties of build_5000_outcomes *)

BuildReturned == build_pc = "exit" /\ build_status = "returned"

\* the feasibility checks passed and the rows were generated: the call then
\* either returns the table or stops at one of its own assertions
RowsBuilt == build_pc = "exit" /\ build_status \in {"returned", "AssertionError"}

\* C1: whenever build_5000_outcomes(target_rtp) returns a table, the sum over
\* its rows of probability_ppm * payout_multiplier is round(target_rtp * 1,000,000).
C1_ExactEV ==
    BuildReturned =>
        SumOver(outcomes, "ev") = PyRound(target_rtp2)

\* a table returned for a target whose product with 1,000,000 ends in .5
C1_Witness ==
    /\ BuildReturned
    /\ target_rtp2 % 2 = 1
    /\ Len(outcomes) > 0

\* C2: every table that build_5000_outcomes generates, and so every table it
\* returns, has probability_ppm summing to exactly 1,000,000.
C2_MassConserved ==
    RowsBuilt => SumOver(outcomes, "ppm") = 1000000

\* a returned table of 5000 rows
C2_Witness ==
    /\ BuildReturned
    /\ Len(outcomes) = 5000

\* C3: every table that build_5000_outcomes generates, and so every table it
\* returns, has exactly one row of multiplier 5000; that row has weight 1, and
\* no other row (no row of the 2x/3x split) carries multiplier 5000.
C3_OneJackpotRow ==
    RowsBuilt =>
        LET jackpots == { i \in 1..Len(outcomes) : outcomes[i].payout_multiplier = 5000 }
        IN  /\ Cardinality(jackpots) = 1
            /\ \A i \in jackpots : outcomes[i].probability_ppm = 1
            /\ \A i \in 1..Len(outcomes) :
                   outcomes[i].payout_multiplier \in {2, 3} => i \notin jackpots

\* a returned table that has 3x rows of both weights next to its jackpot row
C3_Witness ==
    /\ BuildReturned
    /\ \E i \in 1..Len(outcomes) :
           outcomes[i].payout_multiplier = 3 /\ outcomes[i].probability_ppm = 201
    /\ \E i \in 1..Len(outcomes) :
           outcomes[i].payout_multiplier = 3 /\ outcomes[i].probability_ppm = 200
    /\ \E i \in 1..Len(outcomes) : outcomes[i].payout_multiplier = 5000

\* C4: every table that build_5000_outcomes generates, and so every table it
\* returns, gives the rows of multiplier 0 a total weight above 500,000,
\* whatever the target RTP.
C4_MajorityLoss ==
    RowsBuilt => SumOver(outcomes, "loss") > 500000

\* tables returned for a target RTP above 1 and for one below 0.85
C4_Witness ==
    /\ BuildReturned
    /\ \/ target_rtp2 > 2000000
       \/ target_rtp2 < 1700000
    /\ \E i \in 1..Len(outcomes) : outcomes[i].payout_multiplier = 0

\* the pairs (x, y) of C5: x rows of weight 201 and y rows of weight 200 at 3x
HasIntegerSolution(rtp2) ==
    \E x \in 0..199 : \E y \in 0..1800 :
        201 * x + 200 * y = PyRound(rtp2) - 5000 - 2 * 399999

\* C5: build_5000_outcomes raises the infeasibility ValueError exactly when no
\* integers 0 <= x <= 199, 0 <= y <= 1800 satisfy
\* 201*x + 200*y = round(target_rtp*1,000,000) - 5,000 - 2*399,999, and
\* returns a table whenever such a pair exists.
C5_InfeasibleIffNoSolution ==
    build_pc = "exit" =>
        /\ build_status = "ValueError" <=> ~HasIntegerSolution(target_rtp2)
        /\ build_status = "returned" <=> HasIntegerSolution(target_rtp2)

\* a target inside the window of S3 that has no solution because y is out of range
C5_Witness ==
    /\ build_pc = "exit"
    /\ build_status = "ValueError"
    /\ build_message = "3x 200ppm allocation exceeds available winners"

----------------------------------------------------------------------------
(* Properties of the seeded outcome generator *)

\* the last call made a draw and returned
LastDrew == last.op \in {"generate_random", "round"} /\ ~last.raised

\* the last call resolved a round
LastRound == last.op = "round" /\ ~last.raised

\* C6: generate_random is a function of (server_seed, client_seed, counter):
\* every draw that consumes the watched triple returns the value the first such
\* draw returned, whatever the free spins, the earlier draws and the way the
\* state came to hold that triple.
C6_DrawIsFunctionOfTriple == ~probe_differs

\* the watched triple is drawn a second time, with other free spins than the first time
C6_Witness ==
    /\ LastDrew
    /\ Triple(last.before) = probe
    /\ probe_count = 2
    /\ last.before.free_spins_remaining # probe_first.free_spins
    /\ last.r = probe_first.value

\* C7: the counter grows by exactly 1 per draw consumed: by 1 in a
\* generate_random call that returns, by 1 in a resolved round whatever its
\* branch, by 0 in a call that raises, and by 0 in buy_bonus.
C7_CounterStepsByOne ==
    /\ LastDrew => game.nonce = last.before.nonce + 1
    /\ last.raised => game.nonce = last.before.nonce
    /\ last.op = "buy_bonus" => game.nonce = last.before.nonce

\* a bonus trigger resolved as the second draw of a session
C7_Witness ==
    /\ LastRound
    /\ last.result.is_bonus
    /\ last.before.nonce = 1
    /\ game.nonce = 2

\* C8: no (server_seed, client_seed, counter) triple is consumed by more than one draw.
C8_TripleNeverReused == probe_count <= 1

\* C9: a round resolved with no free spins and r < bonus_trigger_rate is the
\* bonus trigger: is_bonus, not a jackpot, multiplier regular_multiplier,
\* winnings bet_amount * regular_multiplier, and free_spins_remaining is
\* bonus_free_shots (5 by default) in the object and in the result.
C9_TriggerRound ==
    (LastRound /\ last.before.free_spins_remaining = 0 /\ last.r < config.bonus_trigger_rate) =>
        /\ last.result.is_bonus
        /\ ~last.result.is_jackpot
        /\ impl = "logic" => last.result.outcome = "bonus_trigger"
        /\ last.result.multiplier = config.regular_multiplier
        /\ last.result.winnings = last.bet * config.regular_multiplier
        /\ game.free_spins_remaining = config.bonus_free_shots
        /\ last.result.free_spins_remaining = config.bonus_free_shots
        /\ config = DefaultConfig => game.free_spins_remaining = 5

\* a trigger under the default rates whose r is also below jackpot_rate
C9_Witness ==
    /\ LastRound
    /\ config = DefaultConfig
    /\ last.before.free_spins_remaining = 0
    /\ last.r < config.jackpot_rate
    /\ last.result.is_bonus
    /\ game.free_spins_remaining = 5

\* C10: a round resolved with free spins left takes exactly one of them and
\* reports the decreased value; a round that is not the trigger and starts
\* with none leaves none; the trigger round starts with none and leaves
\* bonus_free_shots.
C10_FreeSpinDecrement ==
    LastRound =>
        /\ last.result.free_spins_remaining = game.free_spins_remaining
        /\ last.before.free_spins_remaining > 0 =>
               /\ game.free_spins_remaining = last.before.free_spins_remaining - 1
               /\ ~last.result.is_bonus
        /\ (last.before.free_spins_remaining = 0 /\ ~last.result.is_bonus) =>
               game.free_spins_remaining = 0
        /\ last.result.is_bonus =>
               /\ last.before.free_spins_remaining = 0
               /\ game.free_spins_remaining = config.bonus_free_shots

\* a jackpot round that starts with 3 free spins and leaves 2
C10_Witness ==
    /\ LastRound
    /\ last.before.free_spins_remaining = 3
    /\ last.result.is_jackpot
    /\ game.free_spins_remaining = 2
    /\ last.result.free_spins_remaining = 2

\* the rate a round that is not the trigger is won at
WinRateInEffect ==
    IF last.before.free_spins_remaining > 0 THEN config.bonus_win_rate ELSE config.base_win_rate

\* C11: under a configuration with jackpot_rate <= the win rate in effect, a
\* resolved round is a jackpot (multiplier jackpot_multiplier) exactly when
\* r < jackpot_rate, with free spins left or with none.
C11_JackpotIffBelowRate ==
    (LastRound /\ config.jackpot_rate <= WinRateInEffect) =>
        /\ last.result.is_jackpot <=> last.r < config.jackpot_rate
        /\ last.r < config.jackpot_rate =>
               last.result.multiplier = config.jackpot_multiplier

\* C12: buy_bonus called with free spins left raises ValueError and changes
\* nothing: free_spins_remaining, the counter and the seeds are as before.
C12_BuyBonusRefused ==
    (last.op = "buy_bonus" /\ last.before.free_spins_remaining > 0) =>
        /\ last.raised
        /\ game.free_spins_remaining = last.before.free_spins_remaining
        /\ game.nonce = last.before.nonce
        /\ game.server_seed = last.before.server_seed
        /\ game.client_seed = last.before.client_seed

\* a purchase refused with 2 free spins left, in a seeded session that has drawn
C12_Witness ==
    /\ last.op = "buy_bonus"
    /\ last.raised
    /\ last.before.free_spins_remaining = 2
    /\ game.free_spins_remaining = 2
    /\ game.nonce > 0

\* C13: buy_bonus called with no free spins returns, sets free_spins_remaining
\* to bonus_free_shots, makes no draw (the counter stays), and its result has
\* multiplier 0, winnings 0 and free_spins_remaining = bonus_free_shots: the
\* cost bet_amount * buy_bonus_multiplier is not in the result.
C13_BuyBonusGranted ==
    (last.op = "buy_bonus" /\ last.before.free_spins_remaining = 0) =>
        /\ ~last.raised
        /\ last.r = -1
        /\ game.nonce = last.before.nonce
        /\ game.server_seed = last.before.server_seed
        /\ game.client_seed = last.before.client_seed
        /\ game.free_spins_remaining = config.bonus_free_shots
        /\ last.result.free_spins_remaining = config.bonus_free_shots
        /\ last.result.multiplier = 0
        /\ last.result.winnings = 0
        /\ last.result.is_bonus

\* a purchase made after a draw of the session, leaving the 5 default free shots
C13_Witness ==
    /\ last.op = "buy_bonus"
    /\ ~last.raised
    /\ last.before.nonce > 0
    /\ config = DefaultConfig
    /\ game.free_spins_remaining = 5
    /\ last.result.winnings = 0

\* C14: a draw (generate_random, and so a round) made while server_seed is
\* unset or the empty string raises, in both implementations.
C14_UnseededDrawRaises ==
    (last.op \in {"generate_random", "round"} /\ ~Truthy(last.before.server_seed)) =>
        last.raised

\* C15: right after a set_seeds call (nonce left at its default), from any
\* earlier state, the counter is 0 and free_spins_remaining is 0.
C15_SetSeedsResets ==
    last.op = "set_seeds" =>
        /\ game.nonce = 0
        /\ game.free_spins_remaining = 0

\* the rows of the table built that have multiplier m and weight w
RowsWith(m, w) ==
    { i \in 1..Len(outcomes) :
        outcomes[i].payout_multiplier = m /\ outcomes[i].probability_ppm = w }

\* C16: build_5000_outcomes(target_rtp=0.94) returns, without an error, a table
\* of exactly 5000 rows with sum(weight*multiplier) = 940000, loss weight above
\* 500,000 and exactly one row (weight 1, multiplier 5000); it is obtained with
\* S3 = 135,002, x = 2 rows of weight 201 at 3x and y = 673 rows of weight 200 at 3x.
C16_ShippedTargetFeasible ==
    (build_pc = "exit" /\ target_rtp2 = 2 * 940000) =>
        /\ build_status = "returned"
        /\ build_message = ""
        /\ Len(outcomes) = 5000
        /\ SumOver(outcomes, "ev") = 940000
        /\ SumOver(outcomes, "loss") > 500000
        /\ Cardinality({ i \in 1..Len(outcomes) : outcomes[i].payout_multiplier = 5000 }) = 1
        /\ Cardinality(RowsWith(5000, 1)) = 1
        /\ S3(target_rtp2) = 135002
        /\ x_3x_201(S3(target_rtp2)) = 2
        /\ y_3x_200(S3(target_rtp2)) = 673
        /\ Cardinality(RowsWith(3, 201)) = 2
        /\ Cardinality(RowsWith(3, 200)) = 673

\* the table returned for the target 0.94
C16_Witness ==
    /\ BuildReturned
    /\ target_rtp2 = 2 * 940000
    /\ Len(outcomes) = 5000

----------------------------------------------------------------------------
(* Properties of the simulator's weighted selection *)

\* a spin of simulate_spins has just selected its row
SpinSelected == sim_pc = "for" /\ spin > 0

\* the cumulative weight of the rows before row i
PrevSum(i) == IF i = 1 THEN 0 ELSE cumulative_dist(sim_outcomes)[i - 1][1]

\* C18: for a draw x in [0, U) the row selected is the first one whose
\* cumulative weight is strictly greater than x: row i is selected exactly for
\* prev_sum_i <= x < prev_sum_i + weight_i, so a row of weight 0 is never
\* selected.
C18_SelectsHalfOpenInterval ==
    SpinSelected =>
        LET i == selected_outcome.id
        IN  /\ i \in 1..Len(sim_outcomes)
            /\ 2 * PrevSum(i) <= random_value2
            /\ random_value2 < 2 * (PrevSum(i) + sim_outcomes[i].probability_ppm)
            /\ sim_outcomes[i].probability_ppm > 0

----------------------------------------------------------------------------
(* Properties of the branches of a round *)

\* the members of the list bonus_multipliers
BonusMultiplierSet == { config.bonus_multipliers[k] : k \in 1..Len(config.bonus_multipliers) }

\* C19: in a round that is not a bonus trigger, a draw at or above the win rate
\* in effect gives multiplier 0 and payout 0; a non-jackpot win without free
\* spins gives regular_multiplier; a non-jackpot win with free spins gives a
\* member of bonus_multipliers; and the payout is bet_amount * multiplier.
C19_MultiplierByBranch ==
    (LastRound /\ ~last.result.is_bonus) =>
        /\ last.result.winnings = last.bet * last.result.multiplier
        /\ last.r >= WinRateInEffect =>
               /\ last.result.multiplier = 0
               /\ last.result.winnings = 0
               /\ ~last.result.is_jackpot
        /\ (last.r < WinRateInEffect /\ ~last.result.is_jackpot
                /\ last.before.free_spins_remaining = 0) =>
               last.result.multiplier = config.regular_multiplier
        /\ (last.r < WinRateInEffect /\ ~last.result.is_jackpot
                /\ last.before.free_spins_remaining > 0) =>
               last.result.multiplier \in BonusMultiplierSet

\* a non-jackpot win on the last free spin, paid with a bonus multiplier
C19_Witness ==
    /\ LastRound
    /\ ~last.result.is_bonus
    /\ ~last.result.is_jackpot
    /\ last.r < WinRateInEffect
    /\ last.before.free_spins_remaining = 1
    /\ last.result.multiplier \in BonusMultiplierSet
    /\ last.result.multiplier # config.regular_multiplier
    /\ last.result.winnings = last.bet * last.result.multiplier

\* the last call returned a result of category Jackpot
LastJackpot ==
    /\ last.op \in {"round", "buy_bonus"}
    /\ ~last.raised
    /\ \/ last.result.is_jackpot
       \/ (impl = "logic" /\ last.result.outcome = "jackpot")

\* C20: the jackpot check is nested inside the win branch: a result of category
\* Jackpot comes from a round whose draw is below jackpot_rate and below the win
\* rate in effect and that is not a bonus trigger, under every configuration.
C20_JackpotInsideWin ==
    LastJackpot =>
        /\ last.op = "round"
        /\ last.result.is_jackpot
        /\ last.r < config.jackpot_rate
        /\ last.r < WinRateInEffect
        /\ ~last.result.is_bonus
        /\ last.result.multiplier = config.jackpot_multiplier

\* a jackpot during a bonus, under a configuration whose jackpot_rate lies
\* above its base win rate
C20_Witness ==
    /\ LastJackpot
    /\ last.before.free_spins_remaining > 0
    /\ config.jackpot_rate > config.base_win_rate
    /\ last.r < config.jackpot_rate

----------------------------------------------------------------------------
(* Properties of the digest input *)

\* C21: the string fed to SHA-256 is an injective encoding of (server_seed,
\* client_seed, counter): two different triples, with seeds that may contain
\* ':', never give the same digest input.
C21_DigestInputInjective ==
    (encode_pc = "exit" /\ first_triple # second_triple) =>
        /\ first_input.slot # second_input.slot
        /\ first_input.logic # second_input.logic

----------------------------------------------------------------------------
(* Properties of the layout of the table and of its internal checks *)

\* how many of the rows lo..hi of the table pay 3x
ThreeTimesRows(lo, hi) ==
    Cardinality({ i \in lo..hi : outcomes[i].payout_multiplier = 3 })

\* C22: every table returned has the fixed layout: rows 1..3000 are losses of
\* weight 200; then 199 winners of weight 201, the first x of them 3x and the
\* rest 2x; then 1800 winners of weight 200, the first y of them 3x and the
\* rest 2x; then the jackpot row; every non-jackpot weight is 200 or 201 and
\* exactly 199 rows weigh 201.
C22_FixedLayout ==
    BuildReturned =>
        /\ Len(outcomes) = 5000
        /\ \A i \in 1..3000 :
               outcomes[i].payout_multiplier = 0 /\ outcomes[i].probability_ppm = 200
        /\ LET x == ThreeTimesRows(3001, 3199)
           IN  \A i \in 3001..3199 :
                   /\ outcomes[i].probability_ppm = 201
                   /\ outcomes[i].payout_multiplier = IF i - 3000 <= x THEN 3 ELSE 2
        /\ LET y == ThreeTimesRows(3200, 4999)
           IN  \A i \in 3200..4999 :
                   /\ outcomes[i].probability_ppm = 200
                   /\ outcomes[i].payout_multiplier = IF i - 3199 <= y THEN 3 ELSE 2
        /\ outcomes[5000].probability_ppm = 1
        /\ outcomes[5000].payout_multiplier = 5000
        /\ \A i \in 1..4999 : outcomes[i].probability_ppm \in {200, 201}
        /\ Cardinality({ i \in 1..4999 : outcomes[i].probability_ppm = 201 }) = 199

\* a table returned with 3x and 2x rows in both tiers of winners
C22_Witness ==
    /\ BuildReturned
    /\ Len(outcomes) = 5000
    /\ ThreeTimesRows(3001, 3199) \in 1..198
    /\ ThreeTimesRows(3200, 4999) \in 1..1799

\* C23: no target makes the call stop at one of its assertions: it either
\* raises the infeasibility ValueError before any row is built, or returns with
\* 4,999 non-jackpot rows summing to 999,999, total 1,000,000, the exact EV and
\* loss weight above 500,000; and when the feasibility checks pass,
\* 0 <= x <= 199 and 0 <= y <= 1800.
C23_NoAssertionFailure ==
    build_pc = "exit" =>
        /\ build_status \in {"returned", "ValueError"}
        /\ build_status = "ValueError" => outcomes = <<>>
        /\ build_status = "returned" =>
               /\ x_3x_201(S3(target_rtp2)) \in 0..199
               /\ y_3x_200(S3(target_rtp2)) \in 0..1800
               /\ Len(outcomes) = 5000
               /\ SumRange(outcomes, "ppm", 1, 4999) = 999999
               /\ SumOver(outcomes, "ppm") = 1000000
               /\ SumOver(outcomes, "ev") = PyRound(target_rtp2)
               /\ SumOver(outcomes, "loss") > 500000

\* a target whose 3x weight would need more than the 1800 base-weight winners,
\* refused before any row is built
C23_Witness ==
    /\ build_pc = "exit"
    /\ build_status = "ValueError"
    /\ outcomes = <<>>
    /\ ~S3OutOfRange(S3(target_rtp2))
    /\ y_3x_200(S3(target_rtp2)) > 1800

----------------------------------------------------------------------------
(* Properties of two sessions given the same calls *)

\* the last call of the paired sessions returned a result in both
PairResult ==
    /\ first_last.op \in {"round", "buy_bonus"}
    /\ ~first_last.raised
    /\ ~second_last.raised

\* the result is a win of some kind rather than a miss
IsWin(im, result) == IF im = "slot" THEN result.is_win ELSE result.outcome # "miss"

\* the category of a result: miss, score, bonus trigger or jackpot
Category(im, result) ==
    IF result.is_bonus THEN "bonus_trigger"
    ELSE IF result.is_jackpot THEN "jackpot"
    ELSE IF IsWin(im, result) THEN "score"
    ELSE "miss"

\* C24: random.choice never influences the fairness chain: two sessions of one
\* implementation with the same seeds, configuration and calls but their own
\* secondary choices have, after every call, the same counter, the same
\* free_spins_remaining and the same category, and their multipliers differ
\* only for a non-jackpot win made while the bonus is active.
C24_SecondaryChoiceIsolated ==
    (pair_impl[1] = pair_impl[2]) =>
        /\ first_game.nonce = second_game.nonce
        /\ first_game.free_spins_remaining = second_game.free_spins_remaining
        /\ first_game.server_seed = second_game.server_seed
        /\ first_game.client_seed = second_game.client_seed
        /\ first_last.raised = second_last.raised
        /\ first_last.r = second_last.r
        /\ PairResult =>
               /\ Category(pair_impl[1], first_last.result)
                      = Category(pair_impl[2], second_last.result)
               /\ first_last.result.free_spins_remaining
                      = second_last.result.free_spins_remaining
               /\ first_last.result.multiplier # second_last.result.multiplier =>
                      /\ first_last.op = "round"
                      /\ Category(pair_impl[1], first_last.result) = "score"
                      /\ first_last.before.free_spins_remaining > 0

\* two sessions whose bonus wins were paid with different multipliers
C24_Witness ==
    /\ pair_impl[1] = pair_impl[2]
    /\ PairResult
    /\ first_last.op = "round"
    /\ first_last.before.free_spins_remaining > 0
    /\ first_last.result.multiplier # second_last.result.multiplier
    /\ first_game.nonce = second_game.nonce

----------------------------------------------------------------------------
(* Properties of the session state *)

\* C25: in every state reached by set_seeds, rounds, buy_bonus and reset_game,
\* 0 <= free_spins_remaining <= bonus_free_shots and counter >= 0.
C25_StateBounds ==
    /\ 0 <= game.free_spins_remaining
    /\ game.free_spins_remaining <= config.bonus_free_shots
    /\ game.nonce >= 0

\* what one call does to a bonus: a round resolved while free spins are left is
\* evaluated at bonus_win_rate, is no trigger and uses up exactly one free spin;
\* buy_bonus is refused meanwhile; free spins are granted only from 0 and then
\* number bonus_free_shots; seeding and a bare draw leave them alone
BonusStep ==
    /\ (LastRound /\ last.before.free_spins_remaining > 0) =>
           /\ ~last.result.is_bonus
           /\ game.free_spins_remaining = last.before.free_spins_remaining - 1
           /\ IsWin(impl, last.result) <=> last.r < config.bonus_win_rate
    /\ (last.op = "buy_bonus" /\ last.before.free_spins_remaining > 0) =>
           /\ last.raised
           /\ game.free_spins_remaining = last.before.free_spins_remaining
    /\ (last.op \in {"round", "buy_bonus"} /\ ~last.raised /\ last.result.is_bonus) =>
           /\ last.before.free_spins_remaining = 0
           /\ game.free_spins_remaining = config.bonus_free_shots
    /\ game.free_spins_remaining > last.before.free_spins_remaining =>
           last.before.free_spins_remaining = 0
    /\ (last.op \in {"set_seeds", "set_seeds_nonce", "generate_random"} \/ last.raised) =>
           game.free_spins_remaining = last.before.free_spins_remaining

\* C26: a bonus lasts exactly bonus_free_shots rounds and cannot be extended:
\* after a trigger or a purchase every resolved round is evaluated at
\* bonus_win_rate, is not a trigger and counts one free spin down, buy_bonus is
\* rejected until they are used up, and if rounds keep being resolved the
\* session is idle (free_spins_remaining = 0) again and again.
C26_BonusLastsExactly ==
    /\ []BonusStep
    /\ ([]<><<LastRound'>>_vars) => []<>(game.free_spins_remaining = 0)

\* the last of several free spins has just been used up
C26_Witness ==
    /\ LastRound
    /\ config.bonus_free_shots > 1
    /\ last.before.free_spins_remaining = 1
    /\ game.free_spins_remaining = 0
    /\ game.nonce >= config.bonus_free_shots

\* C27: the two implementations are equivalent on seeded sessions: given the
\* same configuration, the same non-empty server seed and client seed and the
\* same set_seeds (default nonce), round and buy_bonus calls, the object of
\* basketball_slot_game.py and the object of game_logic.py have equal counter
\* and free_spins_remaining after every call, and every call raises in both or
\* returns in both with the same is_bonus, is_jackpot and win-or-miss.
C27_ImplementationsAgree ==
    (pair_impl = <<"slot", "logic">>
        /\ first_last.op \in {"set_seeds", "round", "buy_bonus"}) =>
        /\ first_game.nonce = second_game.nonce
        /\ first_game.free_spins_remaining = second_game.free_spins_remaining
        /\ first_last.raised = second_last.raised
        /\ PairResult =>
               /\ first_last.result.is_bonus = second_last.result.is_bonus
               /\ first_last.result.is_jackpot = second_last.result.is_jackpot
               /\ IsWin("slot", first_last.result) = IsWin("logic", second_last.result)

\* a bonus round resolved alike by both implementations after a purchase
C27_Witness ==
    /\ pair_impl = <<"slot", "logic">>
    /\ PairResult
    /\ first_last.op = "round"
    /\ first_last.before.free_spins_remaining > 0
    /\ second_last.before.free_spins_remaining > 0
    /\ first_game.nonce = second_game.nonce
    /\ first_game.nonce > 0

----------------------------------------------------------------------------
(* Properties of the simulator's binary search *)

\* the row a left-to-right scan finds: the first whose cumulative weight is
\* at least the draw (in half units), 0 when there is none
LinearScan(outs, x2) ==
    LET hits == { i \in 1..Len(outs) : x2 <= 2 * cumulative_dist(outs)[i][1] }
    IN  IF hits = {} THEN 0
        ELSE CHOOSE i \in hits : \A j \in hits : i <= j

\* the search of a spin is over: its row is the one of the linear scan and the
\* last-row fallback was not taken
SearchAgrees ==
    SpinSelected =>
        /\ LinearScan(sim_outcomes, random_value2) # 0
        /\ selected_outcome = sim_outcomes[LinearScan(sim_outcomes, random_value2)]
        /\ ~fallback_taken

\* C28: the binary search of simulate_spins terminates for every non-empty
\* table and every draw and returns the row a left-to-right scan for the first
\* cumulative weight >= the draw returns; for draws in [0, total_ppm) a row is
\* always found, so the last-row fallback is never taken.
C28_BinarySearchCorrect ==
    /\ []SearchAgrees
    /\ [](left <= right + 1)
    /\ <>(sim_pc = "exit")

\* a search over three rows that ended on the middle row after moving both ends
C28_Witness ==
    /\ SpinSelected
    /\ Len(sim_outcomes) = 3
    /\ selected_outcome.id = 2
    /\ left = 1
    /\ right = 0
    /\ ~fallback_taken

====
